---- MODULE Spec2Model ----
(***************************************************************************)
(* Spherical k-means (Galois/src/spkmeans.cpp): the document loader, the   *)
(* clustering engine runSPKMeans, the Results lifecycle and the reporter   *)
(* displayResults, as a state machine.                                     *)
(*                                                                         *)
(* Numbers.  A C++ float is modelled as a fixed-point integer: the value x *)
(* is the integer round(x * SCALE).  The result of 0/0 is the value NaN,   *)
(* which every arithmetic operation propagates and for which every         *)
(* comparison is false, as in IEEE-754.  Indices are 0-based as in the     *)
(* code, so arrays are functions over 0..n-1; a partition is the sequence  *)
(* of the row indices of doc_matrix it points to (the code stores the row  *)
(* pointers doc_matrix[i], never copies of the rows).                      *)
(***************************************************************************)
EXTENDS Integers, Sequences, FiniteSets, TLC

(* ------------------------------ bounds -------------------------------- *)
MaxDc == 3
MaxWc == 2
MaxCount == 1
MaxNz == 4
MaxK == 3
IterCap == 5
MaxShow == 1
PartMaxDc == 7
PartMaxK == 8
LoadMaxDc == 2
LoadMaxWc == 2
LoadMaxCount == 1
LoadMaxLines == 2

(* ------------------------- program constants -------------------------- *)
\* fixed-point resolution of the float model (2^13 steps per unit)
SCALE == 2 ^ 13
\* #define Q_THRESHOLD 0.001
Q_THRESHOLD == SCALE \div 1000
\* displayResults(&r, words, 10)
NumToShow == 10

VARIABLES
    pc,            \* position in main / runSPKMeans / loadDocFile
    k, dc, wc,     \* number of clusters, documents, words
    doc_matrix,    \* float **doc_matrix (D in main), fixed-point entries
    partitions,    \* float ***partitions: per cluster, the rows it points to
    p_sizes,       \* int *p_sizes
    concepts,      \* float **concepts
    quality, dQ, iterations,
    base, pidx,    \* base and i of the loop that creates the first partitioning
    heap,          \* per owned array: -1 no array, n >= 0 released n times
    res,           \* main's Results r: which of its three pointers are non-null
    uaf,           \* some released array has been read
    dbl,           \* some array has been released a second time
    out,           \* per partition, the word indices displayResults printed
    num_to_show,   \* displayResults' parameter
    file, pos, mat \* loadDocFile: the lines, the lines read so far, float **mat

loadVars == <<file, pos, mat>>

memVars == <<heap, res, uaf, dbl>>

dispVars == <<out, num_to_show>>

vars == <<pc, k, dc, wc, doc_matrix, partitions, p_sizes, concepts,
          quality, dQ, iterations, base, pidx, heap, res, uaf, dbl,
          out, num_to_show, file, pos, mat>>

(* ---------------------------- float model ----------------------------- *)
NaN == 0 - (2 ^ 30)

IsNaN(x) == x = NaN

FAdd(a, b) == IF IsNaN(a) \/ IsNaN(b) THEN NaN ELSE a + b

FSub(a, b) == IF IsNaN(a) \/ IsNaN(b) THEN NaN ELSE a - b

FMul(a, b) == IF IsNaN(a) \/ IsNaN(b) THEN NaN ELSE (a * b) \div SCALE

\* 0/0 is NaN.  A non-zero value is never divided by zero here: every
\* divisor is the norm of the vector being divided or a product of norms,
\* and such a divisor is zero only when the numerator is zero too.
FDiv(a, b) ==
    IF IsNaN(a) \/ IsNaN(b) \/ b = 0 THEN NaN ELSE (a * SCALE) \div b

FGt(a, b) == ~IsNaN(a) /\ ~IsNaN(b) /\ a > b

FLe(a, b) == ~IsNaN(a) /\ ~IsNaN(b) /\ a <= b

FGe(a, b) == ~IsNaN(a) /\ ~IsNaN(b) /\ a >= b

RECURSIVE SqrtSearch(_, _, _)
SqrtSearch(n, lo, hi) ==
    IF lo >= hi THEN lo
    ELSE LET mid == (lo + hi + 1) \div 2
         IN  IF mid * mid <= n THEN SqrtSearch(n, mid, hi)
                               ELSE SqrtSearch(n, lo, mid - 1)

\* floor of the square root, 0 <= n < 2^31
ISqrt(n) == SqrtSearch(n, 0, 46340)

(* ----------------------- vectors.h: vec_ operators ---------------------------- *)
RECURSIVE FoldAdd(_, _)
FoldAdd(f, n) == IF n = 0 THEN 0 ELSE FAdd(FoldAdd(f, n - 1), f[n - 1])

RECURSIVE PlainSum(_, _)
PlainSum(f, n) == IF n = 0 THEN 0 ELSE PlainSum(f, n - 1) + f[n - 1]

vec_dot(a, b, n) == FoldAdd([j \in 0..(n - 1) |-> FMul(a[j], b[j])], n)

vec_norm(v, n) ==
    IF \E j \in 0..(n - 1) : IsNaN(v[j]) THEN NaN
    ELSE ISqrt(PlainSum([j \in 0..(n - 1) |-> v[j] * v[j]], n))

\* rows: a sequence of vectors (1-based), count = Len(rows)
vec_sum(rows, n, count) ==
    [j \in 0..(n - 1) |-> FoldAdd([r \in 0..(count - 1) |-> rows[r + 1][j]], count)]

vec_multiply(v, n, s) == [j \in 0..(n - 1) |-> FMul(v[j], s)]

vec_divide(v, n, s) == [j \in 0..(n - 1) |-> FDiv(v[j], s)]

vec_normalize(v, n) == vec_divide(v, n, vec_norm(v, n))

(* --------------------------- spkmeans.cpp ----------------------------- *)
txnScheme(m, ndc, nwc) == [i \in 0..(ndc - 1) |-> vec_normalize(m[i], nwc)]

\* the rows a partition points to, in order
Rows(m, part) == [r \in 1..Len(part) |-> m[part[r]]]

computeConcept(partRows, p_size, nwc) ==
    LET cv0 == vec_sum(partRows, nwc, p_size)
        cv1 == vec_multiply(cv0, nwc, SCALE \div nwc)
    IN  vec_divide(cv1, nwc, vec_norm(cv1, nwc))

computeQuality1(partRows, p_size, concept, nwc) ==
    vec_dot(vec_sum(partRows, nwc, p_size), concept, nwc)

computeQuality(m, parts, sizes, cvs, nk, nwc) ==
    FoldAdd([i \in 0..(nk - 1) |->
                computeQuality1(Rows(m, parts[i]), sizes[i], cvs[i], nwc)], nk)

cosineSimilarity(dv, cv, nwc) ==
    FDiv(vec_dot(dv, cv, nwc), FMul(vec_norm(dv, nwc), vec_norm(cv, nwc)))

\* int split = floor(dc / k)
Split(ndc, nk) == ndc \div nk

PartTop_NoLast(i, b, ndc, nk) == b + Split(ndc, nk) - 1

\* int top = base + split - 1; if(i == k-1) top = dc;
PartTop(i, b, ndc, nk) == IF i = nk - 1 THEN ndc ELSE b + Split(ndc, nk) - 1

NextBase_OffByOne(b, ndc, nk) == b + Split(ndc, nk) + 1

\* base = base + split
NextBase(b, ndc, nk) == b + Split(ndc, nk)

(* ------------------------- owned memory ------------------------------- *)
\* partitions = new float**[k]; p_sizes = new int[k]; concepts = new float*[k]
AllocArrays(nk) ==
    [partitions |-> 0, p_sizes |-> 0, concepts |-> 0,
     part |-> [i \in 0..(nk - 1) |-> -1],
     concept |-> [i \in 0..(nk - 1) |-> -1]]

\* delete p: nothing for a null pointer, one more release of the array else
Release(s) == IF s = -1 THEN -1 ELSE s + 1

NoResults == [partitions |-> FALSE, p_sizes |-> FALSE, concepts |-> FALSE]

AllResults == [partitions |-> TRUE, p_sizes |-> TRUE, concepts |-> TRUE]

(* one iteration of the loop that creates the first partitioning *)
PartitionStep ==
    /\ pc = "partition"
    /\ pidx < k
    /\ LET top == PartTop(pidx, base, dc, k)
           p_size == top - base + 1
       IN  /\ p_sizes' = [p_sizes EXCEPT ![pidx] = p_size]
           /\ partitions' = [partitions EXCEPT
                               ![pidx] = [j \in 1..p_size |-> base + (j - 1) - 1]]
    /\ base' = NextBase(base, dc, k)
    /\ pidx' = pidx + 1
    /\ heap' = [heap EXCEPT !.part[pidx] = 0]
    /\ pc' = IF pidx + 1 = k THEN "concepts" ELSE "partition"
    /\ UNCHANGED <<k, dc, wc, doc_matrix, concepts, quality, dQ, iterations,
                   res, uaf, dbl, dispVars, loadVars>>

(* --------------- the initial partitioning on its own ------------------ *)
InitPart ==
    /\ dc \in 1..PartMaxDc
    /\ k \in 1..PartMaxK
    /\ wc = 1
    /\ doc_matrix = [i \in 0..(dc - 1) |-> [j \in 0..0 |-> SCALE]]
    /\ pc = "partition"
    /\ base = 1
    /\ pidx = 0
    /\ partitions = [i \in 0..(k - 1) |-> <<>>]
    /\ p_sizes = [i \in 0..(k - 1) |-> 0]
    /\ concepts = [i \in 0..(k - 1) |-> [j \in 0..0 |-> 0]]
    /\ quality = 0
    /\ dQ = 0
    /\ iterations = 0
    /\ heap = AllocArrays(k)
    /\ res = NoResults
    /\ uaf = FALSE
    /\ dbl = FALSE
    /\ out = [i \in 0..(k - 1) |-> <<>>]
    /\ num_to_show = NumToShow
    /\ file = <<>>
    /\ pos = 0
    /\ mat = <<>>

NextPart == PartitionStep

SpecPart == InitPart /\ [][NextPart]_vars

(* ----------------------- runSPKMeans and main ------------------------- *)
NonZeros(m, ndc, nwc) ==
    Cardinality({c \in (0..(ndc - 1)) \X (0..(nwc - 1)) : m[c[1]][c[2]] # 0})

\* main after loadDocFile: D holds the counts of the file, as floats
Init ==
    /\ dc \in 1..MaxDc
    /\ wc \in 1..MaxWc
    /\ k \in 1..MaxK
    /\ doc_matrix \in [0..(dc - 1) -> [0..(wc - 1) -> {c * SCALE : c \in 0..MaxCount}]]
    /\ NonZeros(doc_matrix, dc, wc) <= MaxNz
    /\ pc = "txn"
    /\ base = 0
    /\ pidx = 0
    /\ partitions = [i \in 0..(k - 1) |-> <<>>]
    /\ p_sizes = [i \in 0..(k - 1) |-> 0]
    /\ concepts = [i \in 0..(k - 1) |-> [j \in 0..(wc - 1) |-> 0]]
    /\ quality = 0
    /\ dQ = 0
    /\ iterations = 0
    /\ heap = [partitions |-> -1, p_sizes |-> -1, concepts |-> -1,
               part |-> [i \in 0..(k - 1) |-> -1],
               concept |-> [i \in 0..(k - 1) |-> -1]]
    /\ res = NoResults
    /\ uaf = FALSE
    /\ dbl = FALSE
    /\ out = [i \in 0..(k - 1) |-> <<>>]
    /\ num_to_show = NumToShow
    /\ file = <<>>
    /\ pos = 0
    /\ mat = <<>>

\* txnScheme(doc_matrix, dc, wc); the three new[]; base = 1
Start ==
    /\ pc = "txn"
    /\ doc_matrix' = txnScheme(doc_matrix, dc, wc)
    /\ heap' = AllocArrays(k)
    /\ base' = 1
    /\ pidx' = 0
    /\ pc' = "partition"
    /\ UNCHANGED <<k, dc, wc, partitions, p_sizes, concepts, quality, dQ,
                   iterations, res, uaf, dbl, dispVars, loadVars>>

AllConcepts(m, parts, sizes, nk, nwc) ==
    [i \in 0..(nk - 1) |-> computeConcept(Rows(m, parts[i]), sizes[i], nwc)]

\* the first concept vectors, the initial quality, dQ = Q_THRESHOLD * 10
InitConcepts ==
    /\ pc = "concepts"
    /\ concepts' = AllConcepts(doc_matrix, partitions, p_sizes, k, wc)
    /\ quality' = computeQuality(doc_matrix, partitions, p_sizes, concepts', k, wc)
    /\ dQ' = Q_THRESHOLD * 10
    /\ iterations' = 0
    /\ heap' = [heap EXCEPT !.concept = [i \in 0..(k - 1) |-> 0]]
    /\ pc' = "loop"
    /\ UNCHANGED <<k, dc, wc, doc_matrix, partitions, p_sizes, base, pidx,
                   res, uaf, dbl, dispVars, loadVars>>

LoopContinues_NonNegative(d) == FGe(d, 0)

LoopContinues_LessEqual(d) == ~FLe(d, Q_THRESHOLD)

\* while(dQ > Q_THRESHOLD)
LoopContinues(d) == FGt(d, Q_THRESHOLD)

RECURSIVE BestFromGe(_, _, _, _, _, _, _)
BestFromGe(j, cIndx, cVal, dv, cvs, nk, nwc) ==
    IF j >= nk THEN cIndx
    ELSE LET new_cVal == cosineSimilarity(dv, cvs[j], nwc)
         IN  IF FGe(new_cVal, cVal)
             THEN BestFromGe(j + 1, j, new_cVal, dv, cvs, nk, nwc)
             ELSE BestFromGe(j + 1, cIndx, cVal, dv, cvs, nk, nwc)

RECURSIVE BestFrom(_, _, _, _, _, _, _)
\* for(int j=1; j<k; j++) if(new_cVal > cVal) { cVal = new_cVal; cIndx = j; }
BestFrom(j, cIndx, cVal, dv, cvs, nk, nwc) ==
    IF j >= nk THEN cIndx
    ELSE LET new_cVal == cosineSimilarity(dv, cvs[j], nwc)
         IN  IF FGt(new_cVal, cVal)
             THEN BestFrom(j + 1, j, new_cVal, dv, cvs, nk, nwc)
             ELSE BestFrom(j + 1, cIndx, cVal, dv, cvs, nk, nwc)

cIndxOf_NonStrict(dv, cvs, nk, nwc) ==
    BestFromGe(1, 0, cosineSimilarity(dv, cvs[0], nwc), dv, cvs, nk, nwc)

\* the cluster a document is pushed to
cIndxOf(dv, cvs, nk, nwc) ==
    BestFrom(1, 0, cosineSimilarity(dv, cvs[0], nwc), dv, cvs, nk, nwc)

RECURSIVE Pushed(_, _, _, _, _, _, _)
\* new_partitions[c] after the documents first..ndc-1 have been pushed
Pushed(c, first, m, cvs, ndc, nk, nwc) ==
    IF first >= ndc THEN <<>>
    ELSE IF cIndxOf(m[first], cvs, nk, nwc) = c
         THEN <<first>> \o Pushed(c, first + 1, m, cvs, ndc, nk, nwc)
         ELSE Pushed(c, first + 1, m, cvs, ndc, nk, nwc)

NewPartitions_SkipFirst(m, cvs, ndc, nk, nwc) ==
    [c \in 0..(nk - 1) |-> Pushed(c, 1, m, cvs, ndc, nk, nwc)]

\* for(int i=0; i<dc; i++) ... new_partitions[cIndx].push_back(doc_matrix[i])
NewPartitions(m, cvs, ndc, nk, nwc) ==
    [c \in 0..(nk - 1) |-> Pushed(c, 0, m, cvs, ndc, nk, nwc)]

\* one reassignment pass: the loop test, new_partitions, clearPartitions
\* and the transfer of data() and size() to partitions and p_sizes.  The
\* code's loop has no cap; IterCap keeps the state space finite, and a run
\* that reaches it with the loop test still true stops there (see C6).
\* data() of a vector that was never pushed to is the null pointer.
Reassign ==
    /\ pc = "loop"
    /\ LoopContinues(dQ)
    /\ iterations < IterCap
    /\ iterations' = iterations + 1
    /\ partitions' = NewPartitions(doc_matrix, concepts, dc, k, wc)
    /\ p_sizes' = [i \in 0..(k - 1) |-> Len(partitions'[i])]
    /\ dbl' = (dbl \/ \E i \in 0..(k - 1) : heap.part[i] >= 1)
    /\ heap' = [heap EXCEPT !.part =
                  [i \in 0..(k - 1) |-> IF Len(partitions'[i]) = 0 THEN -1 ELSE 0]]
    /\ pc' = "transferred"
    /\ UNCHANGED <<k, dc, wc, doc_matrix, concepts, quality, dQ, base, pidx,
                   res, uaf, dispVars, loadVars>>

RecomputeBody ==
    /\ pc = "transferred"
    /\ concepts' = AllConcepts(doc_matrix, partitions, p_sizes, k, wc)
    /\ LET n_quality == computeQuality(doc_matrix, partitions, p_sizes, concepts', k, wc)
       IN  /\ dQ' = FSub(n_quality, quality)
           /\ quality' = n_quality
    /\ dbl' = (dbl \/ \E i \in 0..(k - 1) : heap.concept[i] >= 1)
    /\ pc' = "loop"
    /\ UNCHANGED <<k, dc, wc, partitions, p_sizes, iterations, base, pidx,
                   heap, res, uaf, dispVars, loadVars>>

Recompute_InPlaceSum ==
    /\ RecomputeBody
    /\ doc_matrix' =
         [i \in 0..(dc - 1) |->
            IF \E c \in 0..(k - 1) : p_sizes[c] > 0 /\ partitions[c][1] = i
            THEN LET c == CHOOSE c \in 0..(k - 1) : p_sizes[c] > 0 /\ partitions[c][1] = i
                 IN  vec_sum(Rows(doc_matrix, partitions[c]), wc, p_sizes[c])
            ELSE doc_matrix[i]]

\* clearConcepts, the new concept vectors, n_quality, dQ and quality
Recompute ==
    /\ RecomputeBody
    /\ UNCHANGED doc_matrix

\* the loop test fails: the timer report
LoopExit ==
    /\ pc = "loop"
    /\ ~LoopContinues(dQ)
    /\ pc' = "return"
    /\ UNCHANGED <<k, dc, wc, doc_matrix, partitions, p_sizes, concepts, quality,
                   dQ, iterations, base, pidx, memVars, dispVars, loadVars>>

(* ------------------------ Results and main ---------------------------- *)
\* clearPartitions / clearConcepts read the outer array they walk
ClearReads(r, h) ==
    \/ r.partitions /\ h.partitions >= 1
    \/ r.concepts /\ h.concepts >= 1

ClearDoubles(r, h) ==
    \/ r.partitions /\ (h.partitions >= 1 \/ \E i \in DOMAIN h.part : h.part[i] >= 1)
    \/ r.p_sizes /\ h.p_sizes >= 1
    \/ r.concepts /\ (h.concepts >= 1 \/ \E i \in DOMAIN h.concept : h.concept[i] >= 1)

\* Results::clearMemory on the object whose pointers are r: the heap after
\* it, and the object's pointers after it (all null)
clearMemory(r, h) ==
    [partitions |-> IF r.partitions THEN Release(h.partitions) ELSE h.partitions,
     p_sizes |-> IF r.p_sizes THEN Release(h.p_sizes) ELSE h.p_sizes,
     concepts |-> IF r.concepts THEN Release(h.concepts) ELSE h.concepts,
     part |-> [i \in DOMAIN h.part |->
                 IF r.partitions THEN Release(h.part[i]) ELSE h.part[i]],
     concept |-> [i \in DOMAIN h.concept |->
                 IF r.concepts THEN Release(h.concept[i]) ELSE h.concept[i]],
     ptrs |-> NoResults]

HeapOf(c) == [partitions |-> c.partitions, p_sizes |-> c.p_sizes,
              concepts |-> c.concepts, part |-> c.part, concept |-> c.concept]

\* Results r(k, dc, wc, partitions, p_sizes, concepts); return r;
\* and Results r = runSPKMeans(...) in main.  The compiler may construct the
\* local r directly in main's r (the copy is elided), or copy it member by
\* member (Results declares no copy constructor) and then destroy the local.
ReturnResults ==
    /\ pc = "return"
    /\ \E elided \in BOOLEAN :
         IF elided
         THEN /\ res' = AllResults
              /\ UNCHANGED <<heap, uaf, dbl>>
         ELSE /\ res' = AllResults
              /\ heap' = HeapOf(clearMemory(AllResults, heap))
              /\ uaf' = (uaf \/ ClearReads(AllResults, heap))
              /\ dbl' = (dbl \/ ClearDoubles(AllResults, heap))
    /\ pc' = "display"
    /\ UNCHANGED <<k, dc, wc, doc_matrix, partitions, p_sizes, concepts, quality,
                   dQ, iterations, base, pidx, dispVars, loadVars>>

FLt(a, b) == ~IsNaN(a) /\ ~IsNaN(b) /\ a < b

\* operator< of pair<float, int>
PairLess(a, b) == FLt(a[1], b[1]) \/ (~FLt(b[1], a[1]) /\ a[2] < b[2])

RECURSIVE PopTop(_, _)
\* n times: q.top().second, q.pop()
PopTop(q, n) ==
    IF n <= 0 THEN <<>>
    ELSE LET top == CHOOSE x \in q : \A y \in q \ {x} : PairLess(y, x)
         IN  <<top[2]>> \o PopTop(q \ {top}, n - 1)

Clamp(n, nwc) == IF n > nwc THEN nwc ELSE n

\* the word indices printed for one partition
TopWords(sum, nwc, n) ==
    PopTop({<<sum[j], j>> : j \in 0..(nwc - 1)}, Clamp(n, nwc))

\* displayResults reads r->partitions[i], r->p_sizes[i] and the partition arrays
DisplayReadsReleased ==
    \/ heap.partitions >= 1
    \/ heap.p_sizes >= 1
    \/ \E i \in 0..(k - 1) : heap.part[i] >= 1

DisplayOutput(n) ==
    [i \in 0..(k - 1) |->
        TopWords(vec_sum(Rows(doc_matrix, partitions[i]), wc, p_sizes[i]), wc, n)]

\* displayResults(&r, words, n).  Reading released arrays is undefined: the
\* old contents may still be there, or the walk faults part way.
DisplayResults ==
    /\ pc = "display"
    /\ \E n \in (1..MaxShow) \cup {NumToShow} :
         /\ num_to_show' = n
         /\ \/ /\ out' = DisplayOutput(n)
               /\ uaf' = (uaf \/ DisplayReadsReleased)
               /\ pc' = "clear"
            \/ /\ DisplayReadsReleased
               /\ uaf' = TRUE
               /\ out' = out
               /\ pc' = "crashed"
    /\ UNCHANGED <<k, dc, wc, doc_matrix, partitions, p_sizes, concepts, quality,
                   dQ, iterations, base, pidx, heap, res, dbl, loadVars>>

\* r.clearMemory() in main
ClearMemoryMain ==
    /\ pc = "clear"
    /\ LET c == clearMemory(res, heap)
       IN  /\ heap' = HeapOf(c)
           /\ res' = c.ptrs
    /\ uaf' = (uaf \/ ClearReads(res, heap))
    /\ dbl' = (dbl \/ ClearDoubles(res, heap))
    /\ pc' = "destroy"
    /\ UNCHANGED <<k, dc, wc, doc_matrix, partitions, p_sizes, concepts, quality,
                   dQ, iterations, base, pidx, dispVars, loadVars>>

\* ~Results() of main's r at return 0
DestroyResults ==
    /\ pc = "destroy"
    /\ LET c == clearMemory(res, heap)
       IN  /\ heap' = HeapOf(c)
           /\ res' = c.ptrs
    /\ uaf' = (uaf \/ ClearReads(res, heap))
    /\ dbl' = (dbl \/ ClearDoubles(res, heap))
    /\ pc' = "exit"
    /\ UNCHANGED <<k, dc, wc, doc_matrix, partitions, p_sizes, concepts, quality,
                   dQ, iterations, base, pidx, dispVars, loadVars>>

Next ==
    \/ Start
    \/ PartitionStep
    \/ InitConcepts
    \/ Reassign
    \/ Recompute
    \/ LoopExit
    \/ ReturnResults
    \/ DisplayResults
    \/ ClearMemoryMain
    \/ DestroyResults

Spec == Init /\ [][Next]_vars

(* --------------------------- loadDocFile ------------------------------ *)
\* a token of a line: an integer, or a word that is no integer
IntTok(n) == [int |-> TRUE, val |-> n]

WordTok == [int |-> FALSE, val |-> 0]

\* a count that a float cannot hold exactly
BigCount == (2 ^ 24) + 1

LoadCounts == (1..LoadMaxCount) \cup {BigCount}

\* the lines of a file for ndc documents and nwc words: the triplets with
\* ids in range, a blank line, a line of two integers, a line whose second
\* token is no integer, and a line of four integers
LoadLines(ndc, nwc) ==
    {<<IntTok(d), IntTok(w), IntTok(c)>> :
        d \in 1..ndc, w \in 1..nwc, c \in LoadCounts}
    \cup {<<>>,
          <<IntTok(1), IntTok(1)>>,
          <<IntTok(1), WordTok, IntTok(1)>>,
          <<IntTok(1), IntTok(1), IntTok(1), IntTok(1)>>}

SeqsUpTo(S, n) == UNION {[1..m -> S] : m \in 0..n}

RECURSIVE Exponent(_, _)
\* the least e with n < 2^(24+e)
Exponent(n, e) == IF n < 2 ^ 24 THEN e ELSE Exponent(n \div 2, e + 1)

\* int to float: round to nearest, ties to even, 24 significant bits
IntToFloat(n) ==
    IF n < 0 THEN 0 - (LET a == 0 - n
                           e == Exponent(a, 0)
                           q == a \div (2 ^ e)
                           r == a % (2 ^ e)
                       IN  IF 2 * r > 2 ^ e \/ (2 * r = 2 ^ e /\ q % 2 = 1)
                           THEN (q + 1) * (2 ^ e) ELSE q * (2 ^ e))
    ELSE LET e == Exponent(n, 0)
             q == n \div (2 ^ e)
             r == n % (2 ^ e)
         IN  IF 2 * r > 2 ^ e \/ (2 * r = 2 ^ e /\ q % 2 = 1)
             THEN (q + 1) * (2 ^ e) ELSE q * (2 ^ e)

\* iss >> doc_id >> word_id >> count succeeds
Parses(line) ==
    /\ Len(line) >= 3
    /\ line[1].int
    /\ line[2].int
    /\ line[3].int

StoreTriplet_NoOffset(m, doc_id, word_id, count) ==
    IF doc_id \in DOMAIN m /\ word_id \in DOMAIN m[doc_id]
    THEN [m EXCEPT ![doc_id][word_id] = IntToFloat(count)]
    ELSE m

\* mat[doc_id-1][word_id-1] = count
StoreTriplet(m, doc_id, word_id, count) ==
    [m EXCEPT ![doc_id - 1][word_id - 1] = IntToFloat(count)]

InitLoad ==
    /\ \E ndc \in 1..LoadMaxDc, nwc \in 1..LoadMaxWc :
         \E body \in SeqsUpTo(LoadLines(ndc, nwc), LoadMaxLines) :
            file = [dc |-> ndc, wc |-> nwc, lines |-> <<<<>>>> \o body]
    /\ pc = "load_header"
    /\ pos = 0
    /\ mat = <<>>
    /\ dc = 0
    /\ wc = 0
    /\ k = 1
    /\ doc_matrix = <<>>
    /\ base = 0
    /\ pidx = 0
    /\ partitions = <<>>
    /\ p_sizes = <<>>
    /\ concepts = <<>>
    /\ quality = 0
    /\ dQ = 0
    /\ iterations = 0
    /\ heap = <<>>
    /\ res = NoResults
    /\ uaf = FALSE
    /\ dbl = FALSE
    /\ out = <<>>
    /\ num_to_show = NumToShow

clusterVars == <<k, doc_matrix, partitions, p_sizes, concepts, quality, dQ,
                 iterations, base, pidx>>

\* infile >> dc >> wc >> nzwc; the matrix of zeros
ReadHeader ==
    /\ pc = "load_header"
    /\ dc' = file.dc
    /\ wc' = file.wc
    /\ mat' = [i \in 0..(file.dc - 1) |-> [j \in 0..(file.wc - 1) |-> 0]]
    /\ pos' = 0
    /\ pc' = "load_lines"
    /\ UNCHANGED <<file, clusterVars, memVars, dispVars>>

\* one getline: the first returns what is left of the header line
ReadLine ==
    /\ pc = "load_lines"
    /\ pos < Len(file.lines)
    /\ LET line == file.lines[pos + 1]
       IN  mat' = IF Parses(line)
                  THEN StoreTriplet(mat, line[1].val, line[2].val, line[3].val)
                  ELSE mat
    /\ pos' = pos + 1
    /\ UNCHANGED <<pc, dc, wc, file, clusterVars, memVars, dispVars>>

\* end of file: infile.close(); return mat
LoadDone ==
    /\ pc = "load_lines"
    /\ pos = Len(file.lines)
    /\ pc' = "loaded"
    /\ UNCHANGED <<dc, wc, loadVars, clusterVars, memVars, dispVars>>

NextLoad ==
    \/ ReadHeader
    \/ ReadLine
    \/ LoadDone

SpecLoad == InitLoad /\ [][NextLoad]_vars

(* ============================== claims ================================ *)
PartitionDone == pc = "concepts"

\* the (partition, position) pairs that hold document d
Holders(d) ==
    {c \in (0..(k - 1)) \X (1..dc) :
        c[2] <= Len(partitions[c[1]]) /\ partitions[c[1]][c[2]] = d}

\* C2: the initial partitioning of dc documents into k groups, 1 <= k <= dc,
\* gives groups whose sizes sum to dc, each a contiguous run of documents in
\* the original order, covering every document 0..dc-1 exactly once; group i
\* starts at document i * (dc div k), so the result is a function of (dc, k).
C2_InitialPartitioning ==
    (PartitionDone /\ k <= dc) =>
        /\ PlainSum(p_sizes, k) = dc
        /\ \A i \in 0..(k - 1) :
             /\ Len(partitions[i]) = p_sizes[i]
             /\ \A j \in 1..p_sizes[i] :
                  partitions[i][j] = i * (dc \div k) + (j - 1)
        /\ \A d \in 0..(dc - 1) : Cardinality(Holders(d)) = 1

C2_Witness ==
    /\ PartitionDone
    /\ dc = 7
    /\ k = 3
    /\ p_sizes[2] = 3

\* C3 as stated: the sizes of any two initial groups differ by at most 1.
C3_Original ==
    (PartitionDone /\ k <= dc) =>
        \A i, j \in 0..(k - 1) : p_sizes[i] - p_sizes[j] <= 1

\* C3 amended: every group but the last has dc div k documents and the last
\* has dc div k + dc mod k, so two sizes differ by at most dc mod k.
C3_Amended ==
    (PartitionDone /\ k <= dc) =>
        /\ \A i \in 0..(k - 2) : p_sizes[i] = dc \div k
        /\ p_sizes[k - 1] = (dc \div k) + (dc % k)
        /\ \A i, j \in 0..(k - 1) : p_sizes[i] - p_sizes[j] <= dc % k

C3_Witness ==
    /\ PartitionDone
    /\ dc = 5
    /\ k = 3
    /\ p_sizes[2] - p_sizes[0] = 2

InRun == pc \in {"transferred", "loop", "return"}

\* C1: after every reassignment pass the k partitions are pairwise disjoint
\* and cover the documents: each document 0..dc-1 is in exactly one
\* partition, p_sizes[i] is the number of documents of partition i, and the
\* sizes sum to dc.
C1_PartitionsCover ==
    (InRun /\ iterations >= 1) =>
        /\ \A d \in 0..(dc - 1) : Cardinality(Holders(d)) = 1
        /\ \A i \in 0..(k - 1) :
             /\ p_sizes[i] = Len(partitions[i])
             /\ \A j \in 1..Len(partitions[i]) : partitions[i][j] \in 0..(dc - 1)
        /\ PlainSum(p_sizes, k) = dc

C1_Witness ==
    /\ pc = "transferred"
    /\ iterations = 1
    /\ dc = 3
    /\ k = 2
    /\ partitions[0] = <<0, 1>>
    /\ partitions[1] = <<2>>

ClusterOf(d) == CHOOSE c \in 0..(k - 1) : \E j \in 1..Len(partitions[c]) : partitions[c][j] = d

Sim(d, j) == cosineSimilarity(doc_matrix[d], concepts[j], wc)

\* cluster c has the highest of d's similarities (a NaN is no similarity to
\* beat), and no cluster before c reaches it
HighestLowestIndex(d, c) ==
    /\ \A j \in 0..(k - 1) : IsNaN(Sim(d, j)) \/ FGe(Sim(d, c), Sim(d, j))
    /\ \A j \in 0..(c - 1) : IsNaN(Sim(d, j)) \/ FGt(Sim(d, c), Sim(d, j))

\* C4 as stated: in each reassignment pass every document goes to the cluster
\* whose concept vector has the highest cosine similarity with it, the lowest
\* index among the clusters that reach the maximum.
C4_Original ==
    pc = "transferred" => \A d \in 0..(dc - 1) : HighestLowestIndex(d, ClusterOf(d))

\* C4 amended: that holds for every document whose similarity with cluster 0
\* is not NaN; a document whose similarity with cluster 0 is NaN goes to
\* cluster 0, whatever its other similarities are.
C4_Amended ==
    pc = "transferred" =>
        \A d \in 0..(dc - 1) :
            IF IsNaN(Sim(d, 0)) THEN ClusterOf(d) = 0
            ELSE HighestLowestIndex(d, ClusterOf(d))

C4_Witness ==
    /\ pc = "transferred"
    /\ k >= 2
    /\ \E d \in 0..(dc - 1) :
         /\ \A j \in 0..(k - 1) : ~IsNaN(Sim(d, j))
         /\ Sim(d, 0) = Sim(d, 1)
         /\ Sim(d, 0) > 0
         /\ ClusterOf(d) = 0
    /\ \E d \in 0..(dc - 1) :
         /\ ClusterOf(d) >= 1
         /\ FGt(Sim(d, ClusterOf(d)), Sim(d, 0))

\* C5 as stated: at least one pass is performed, and after each pass the loop
\* stops if and only if dQ <= Q_THRESHOLD; no pass follows such a pass.
C5_Original ==
    [][pc = "loop" =>
         /\ (pc' = "return") <=> FLe(dQ, Q_THRESHOLD)
         /\ (pc' = "return") => iterations >= 1]_vars

\* C5 amended: at least one pass is performed, and after each pass the loop
\* stops if and only if dQ > Q_THRESHOLD is false: dQ <= Q_THRESHOLD, or dQ
\* is NaN.
C5_Amended ==
    [][pc = "loop" =>
         /\ (pc' = "return") <=> (FLe(dQ, Q_THRESHOLD) \/ IsNaN(dQ))
         /\ (pc' = "return") => iterations >= 1]_vars

C5_Witness ==
    /\ pc = "return"
    /\ iterations = 2
    /\ FLe(dQ, Q_THRESHOLD)

NonPathological ==
    /\ k <= dc
    /\ \A i \in 0..(dc - 1) :
         /\ \E j \in 0..(wc - 1) : doc_matrix[i][j] # 0
         /\ \A j \in 0..(wc - 1) : ~IsNaN(doc_matrix[i][j])

\* C6: for a non-pathological input (every document non-zero, 1 <= k <= dc)
\* the refinement loop ends within IterCap passes: the loop test never asks
\* for a pass beyond the IterCap-th.
C6_Terminates ==
    NonPathological => ~(pc = "loop" /\ LoopContinues(dQ) /\ iterations >= IterCap)

C6_Witness ==
    /\ pc = "return"
    /\ NonPathological
    /\ iterations = 2
    /\ dc = 3
    /\ k = 2

ReleasedOnce(s) == s = -1 \/ s = 1

\* C7: every partition array, the sizes array and every concept vector the
\* Results owns is released exactly once over the run: none is released
\* twice, none is read after its release, and at exit each has been released.
C7_ReleasedExactlyOnce ==
    /\ ~uaf
    /\ ~dbl
    /\ pc = "exit" =>
         /\ ReleasedOnce(heap.partitions)
         /\ ReleasedOnce(heap.p_sizes)
         /\ ReleasedOnce(heap.concepts)
         /\ \A i \in 0..(k - 1) : ReleasedOnce(heap.part[i]) /\ ReleasedOnce(heap.concept[i])

Displayed == pc \in {"clear", "destroy", "exit", "crashed"}

Weights(i) == vec_sum(Rows(doc_matrix, partitions[i]), wc, p_sizes[i])

\* C9: for each partition displayResults prints exactly min(N, wc) words,
\* those with the largest summed weight over the partition's documents, in
\* non-increasing order of summed weight.
C9_TopWords ==
    Displayed =>
        \A i \in 0..(k - 1) :
            /\ Len(out[i]) = Clamp(num_to_show, wc)
            /\ \A a, b \in 1..Len(out[i]) :
                 a < b => /\ out[i][a] # out[i][b]
                          /\ ~FLt(Weights(i)[out[i][a]], Weights(i)[out[i][b]])
            /\ \A a \in 1..Len(out[i]) :
                 \A w \in 0..(wc - 1) :
                    (\A b \in 1..Len(out[i]) : out[i][b] # w) =>
                        ~FLt(Weights(i)[out[i][a]], Weights(i)[w])

\* C10: the document vectors are changed by the TXN normalization at the
\* start of runSPKMeans and by nothing else: the initial partitioning, the
\* reassignment passes, the concept and quality computations, displayResults
\* and the release of the Results leave every entry as it is.
C10_MatrixFrame ==
    [][/\ doc_matrix' # doc_matrix => pc = "txn"
       /\ pc = "txn" => doc_matrix' = txnScheme(doc_matrix, dc, wc)]_vars

C10_Witness ==
    /\ pc = "exit"
    /\ iterations >= 2
    /\ \E i \in 0..(dc - 1) : \E j \in 0..(wc - 1) :
         doc_matrix[i][j] > 0 /\ doc_matrix[i][j] < SCALE

\* the lines of the file that name document d (1-based), as the loader reads
\* them: three leading integers, the first of them d
Naming(d) ==
    {n \in 1..Len(file.lines) : Parses(file.lines[n]) /\ file.lines[n][1].val = d}

RECURSIVE CountSum(_)
CountSum(ns) ==
    IF ns = {} THEN 0
    ELSE LET n == CHOOSE x \in ns : TRUE
         IN  file.lines[n][3].val + CountSum(ns \ {n})

RowsMatchTriplets ==
    \A d \in 1..dc : PlainSum(mat[d - 1], wc) = CountSum(Naming(d))

\* C8 as stated: for every file whose triplets have in-range ids and every
\* document d, the entries of row d of the loaded matrix sum to the sum of
\* the counts of the triplets naming d; other lines contribute nothing.
C8_Original == pc = "loaded" => RowsMatchTriplets

NoCellTwice ==
    \A n1, n2 \in 1..Len(file.lines) :
        (/\ n1 # n2
         /\ Parses(file.lines[n1])
         /\ Parses(file.lines[n2])
         /\ file.lines[n1][1].val = file.lines[n2][1].val)
        => file.lines[n1][2].val # file.lines[n2][2].val

CountsFitFloat ==
    \A n \in 1..Len(file.lines) :
        Parses(file.lines[n]) =>
            /\ file.lines[n][3].val <= 2 ^ 24
            /\ file.lines[n][3].val >= 0 - (2 ^ 24)

\* C8 amended: the same, for the files in which no (document, word) pair is
\* named by two triplets and every count is at most 2^24 in absolute value;
\* a line is a triplet when its first three tokens are integers.
C8_Amended == (pc = "loaded" /\ NoCellTwice /\ CountsFitFloat) => RowsMatchTriplets

C8_Witness ==
    /\ pc = "loaded"
    /\ NoCellTwice
    /\ CountsFitFloat
    /\ dc = 2
    /\ Cardinality(Naming(2)) = 2
    /\ mat[1][0] = 1
    /\ mat[1][1] = 1

====
